---- MODULE Spec2Model ----
(***************************************************************************)
(* Model of two pieces of src/core/utilities.cpp of Strawberry:            *)
(*   - Utilities::ReplaceMessage / ReplaceVariable, the "%variable%"       *)
(*     substitution of now-playing messages;                               *)
(*   - Utilities::RemoveRecursive / MoveToTrashRecursive / CopyRecursive,  *)
(*     the recursive directory walks.                                      *)
(* Strings are sequences of one-character strings; offsets are 0-based as  *)
(* in QString, so the character at offset i of s is s[i + 1].              *)
(***************************************************************************)
EXTENDS Integers, Sequences, FiniteSets, TLC

(***************************************************************************)
(* Bounds of the model.                                                    *)
(***************************************************************************)
\* A generated message is the concatenation of at most MaxPieces pieces.
MaxPieces == 3

(***************************************************************************)
(* Characters and string helpers.                                          *)
(***************************************************************************)
\* The characters [a-z] of the token grammar.
Lower ==
  {"a", "b", "c", "d", "e", "f", "g", "h", "i", "j", "k", "l", "m",
   "n", "o", "p", "q", "r", "s", "t", "u", "v", "w", "x", "y", "z"}

Digits == <<"0", "1", "2", "3", "4", "5", "6", "7", "8", "9">>

RECURSIVE Concat(_)
\* Concatenation of a sequence of strings.
Concat(ss) ==
  IF ss = <<>> THEN <<>> ELSE Head(ss) \o Concat(Tail(ss))

\* s.mid(i, n): the n characters of s from offset i.
Mid(s, i, n) == SubSeq(s, i + 1, i + n)

\* Whether string t occurs in s at offset i.
OccursAt(s, t, i) ==
  /\ i >= 0
  /\ i + Len(t) <= Len(s)
  /\ Mid(s, i, Len(t)) = t

\* Whether string t occurs somewhere in s.
Contains(s, t) == \E i \in 0..Len(s) : OccursAt(s, t, i)

(***************************************************************************)
(* QString primitives used by ReplaceMessage and ReplaceVariable.          *)
(***************************************************************************)
RECURSIVE NatToString(_)
\* Decimal digits of a natural number.
NatToString(n) ==
  IF n < 10 THEN <<Digits[n + 1]>>
  ELSE NatToString(n \div 10) \o <<Digits[(n % 10) + 1]>>

\* QString::setNum(int): decimal text, with a leading minus sign when negative.
SetNum(n) == IF n < 0 THEN <<"-">> \o NatToString(0 - n) ELSE NatToString(n)

\* EscapeChar that leaves the ampersand alone.
EscapeCharNoAmp(c) ==
  CASE c = "<" -> <<"&", "l", "t", ";">>
    [] c = ">" -> <<"&", "g", "t", ";">>
    [] c = "\"" -> <<"&", "q", "u", "o", "t", ";">>
    [] OTHER -> <<c>>

\* The entity QString::toHtmlEscaped() writes for one character.
EscapeChar(c) ==
  CASE c = "<" -> <<"&", "l", "t", ";">>
    [] c = ">" -> <<"&", "g", "t", ";">>
    [] c = "&" -> <<"&", "a", "m", "p", ";">>
    [] c = "\"" -> <<"&", "q", "u", "o", "t", ";">>
    [] OTHER -> <<c>>

RECURSIVE ToHtmlEscaped(_)
\* QString::toHtmlEscaped().
ToHtmlEscaped(s) ==
  IF s = <<>> THEN <<>> ELSE EscapeChar(Head(s)) \o ToHtmlEscaped(Tail(s))

RECURSIVE ReplaceAll(_, _, _)
\* QString::replace(before, after): every occurrence of before in s, found
\* left to right and non-overlapping, becomes after; the inserted text is not
\* searched again.
ReplaceAll(s, before, after) ==
  LET found == {i \in 0..Len(s) : OccursAt(s, before, i)}
  IN  IF found = {} THEN s
      ELSE LET first == CHOOSE i \in found : \A m \in found : i <= m
           IN  SubSeq(s, 1, first) \o after
                 \o ReplaceAll(SubSeq(s, first + Len(before) + 1, Len(s)), before, after)

\* QString::remove(i, n).
Remove(s, i, n) == SubSeq(s, 1, i) \o SubSeq(s, i + n + 1, Len(s))

(***************************************************************************)
(* The regular expression "[%][a-z]+[%]".                                  *)
(***************************************************************************)
\* Length of the match of [%][a-z]+[%] that starts at offset i, 0 if none.
\* After the opening '%', [a-z]+ takes every following lower-case letter
\* and the next character must be '%'.
TokenLenAt(s, i) ==
  IF i < 0 \/ i >= Len(s) \/ s[i + 1] # "%" THEN 0
  ELSE LET stops == {j \in (i + 1)..(Len(s) - 1) : s[j + 1] \notin Lower}
       IN  IF stops = {} THEN 0
           ELSE LET j == CHOOSE k \in stops : \A m \in stops : k <= m
                IN  IF j > i + 1 /\ s[j + 1] = "%" THEN j - i + 1 ELSE 0

\* capturedStart() of variable_replacer.match(s, pos): the first offset at or
\* after pos where the expression matches; -1 if match.hasMatch() is false.
MatchStart(s, pos) ==
  LET starts == {i \in pos..(Len(s) - 1) : TokenLenAt(s, i) > 0}
  IN  IF starts = {} THEN 0 - 1
      ELSE CHOOSE i \in starts : \A m \in starts : i <= m

(***************************************************************************)
(* The regular expression " - (>|$)".                                      *)
(***************************************************************************)
\* Whether '$' matches at offset k of s.  Without the multiline option the
\* dollar of QRegularExpression (PCRE) matches at the very end of the
\* subject and also just before a line feed that is its last character.
DollarAt(s, k) ==
  \/ k = Len(s)
  \/ (k = Len(s) - 1 /\ s[k + 1] = "\n")

\* Whether " - (>|$)" matches at offset i of s.
StripAt(s, i) ==
  /\ OccursAt(s, <<" ", "-", " ">>, i)
  /\ \/ OccursAt(s, <<">">>, i + 3)
     \/ DollarAt(s, i + 3)

\* copy.indexOf(QRegularExpression(" - (>|$)")): offset of the first match,
\* -1 if there is none.
IndexOfStrip(s) ==
  LET starts == {i \in 0..Len(s) : StripAt(s, i)}
  IN  IF starts = {} THEN 0 - 1
      ELSE CHOOSE i \in starts : \A m \in starts : i <= m

(***************************************************************************)
(* The variable names ReplaceVariable compares against.                    *)
(***************************************************************************)
VarTitle == <<"%", "t", "i", "t", "l", "e", "%">>
VarAlbum == <<"%", "a", "l", "b", "u", "m", "%">>
VarArtist == <<"%", "a", "r", "t", "i", "s", "t", "%">>
VarAlbumArtist ==
  <<"%", "a", "l", "b", "u", "m", "a", "r", "t", "i", "s", "t", "%">>
VarTrack == <<"%", "t", "r", "a", "c", "k", "%">>
VarDisc == <<"%", "d", "i", "s", "c", "%">>
VarYear == <<"%", "y", "e", "a", "r", "%">>
VarOriginalYear ==
  <<"%", "o", "r", "i", "g", "i", "n", "a", "l", "y", "e", "a", "r", "%">>
VarGenre == <<"%", "g", "e", "n", "r", "e", "%">>
VarComposer == <<"%", "c", "o", "m", "p", "o", "s", "e", "r", "%">>
VarPerformer == <<"%", "p", "e", "r", "f", "o", "r", "m", "e", "r", "%">>
VarGrouping == <<"%", "g", "r", "o", "u", "p", "i", "n", "g", "%">>
VarLength == <<"%", "l", "e", "n", "g", "t", "h", "%">>
VarFilename == <<"%", "f", "i", "l", "e", "n", "a", "m", "e", "%">>
VarUrl == <<"%", "u", "r", "l", "%">>
VarPlayCount == <<"%", "p", "l", "a", "y", "c", "o", "u", "n", "t", "%">>
VarSkipCount == <<"%", "s", "k", "i", "p", "c", "o", "u", "n", "t", "%">>
VarRating == <<"%", "r", "a", "t", "i", "n", "g", "%">>
VarNewline == <<"%", "n", "e", "w", "l", "i", "n", "e", "%">>

\* Every variable of the dispatch chain of ReplaceVariable.
KnownVariables ==
  {VarTitle, VarAlbum, VarArtist, VarAlbumArtist, VarTrack, VarDisc,
   VarYear, VarOriginalYear, VarGenre, VarComposer, VarPerformer, VarGrouping,
   VarLength, VarFilename, VarUrl, VarPlayCount, VarSkipCount, VarRating, VarNewline}

\* The dispatch chain of ReplaceVariable: the value of a variable before any
\* escaping; a variable the chain does not know keeps value = variable.  A
\* song is the record of what the accessors of Song return.
Resolved(variable, sng) ==
  CASE variable = VarTitle -> sng.PrettyTitle
    [] variable = VarAlbum -> sng.album
    [] variable = VarArtist -> sng.artist
    [] variable = VarAlbumArtist -> sng.effective_albumartist
    [] variable = VarTrack -> SetNum(sng.track)
    [] variable = VarDisc -> SetNum(sng.disc)
    [] variable = VarYear -> sng.PrettyYear
    [] variable = VarOriginalYear -> sng.PrettyOriginalYear
    [] variable = VarGenre -> sng.genre
    [] variable = VarComposer -> sng.composer
    [] variable = VarPerformer -> sng.performer
    [] variable = VarGrouping -> sng.grouping
    [] variable = VarLength -> sng.PrettyLength
    [] variable = VarFilename -> sng.basefilename
    [] variable = VarUrl -> sng.url
    [] variable = VarPlayCount -> SetNum(sng.playcount)
    [] variable = VarSkipCount -> SetNum(sng.skipcount)
    [] variable = VarRating -> sng.PrettyRating
    [] OTHER -> variable

\* ReplaceVariable with the newline escaped like every other value.
ReplaceVariableEscapingNewline(variable, sng, nl, html) ==
  LET resolved == IF variable = VarNewline THEN nl ELSE Resolved(variable, sng)
  IN  IF html THEN ToHtmlEscaped(resolved) ELSE resolved

\* ReplaceVariable: the value a captured variable is replaced by.  The
\* newline is returned at once, before the escaping.
ReplaceVariable(variable, sng, nl, html) ==
  IF variable = VarNewline THEN nl
  ELSE IF html THEN ToHtmlEscaped(Resolved(variable, sng))
       ELSE Resolved(variable, sng)

(***************************************************************************)
(* Inputs of ReplaceMessage.                                               *)
(***************************************************************************)
StrSong == <<"S", "o", "n", "g">>
StrAmp == <<"A", "&", "B">>
StrQuote == <<"<", "\"">>
StrDash == <<" ", "-", " ">>
StrGt == <<">">>
StrLf == <<"\n">>
StrBr == <<"<", "b", "r", ">">>
StrPercentX == <<"%", "x">>
StrPercent == <<"%">>
StrAlbum == <<"L", "P">>
StrUrl ==
  <<"f", "i", "l", "e", ":", "/", "/", "/", "m", "/", "a", "&", "b", ".",
    "o", "g", "g">>
StrFile == <<"a", "&", "b", ".", "o", "g", "g">>
StrLength == <<"3", ":", "0", "5">>
StrYear == <<"1", "9", "9", "9">>
StrGenre == <<"R", "&", "B">>
StrStars == <<"4", ".", "5">>

\* Messages given as examples for Utilities::ReplaceMessage.
MsgTitleArtist ==
  <<"%", "t", "i", "t", "l", "e", "%", " ", "-", " ", "%", "a", "r", "t",
    "i", "s", "t", "%">>
MsgBoldArtist ==
  <<"<", "b", ">", "%", "a", "r", "t", "i", "s", "t", "%", "<", "/", "b",
    ">">>
MsgUnknown ==
  <<"%", "u", "n", "k", "n", "o", "w", "n", "t", "o", "k", "e", "n", "%">>
MsgStraddle ==
  <<"%", "x", "%", "t", "i", "t", "l", "e", "%", " ", "%", "t", "i", "t",
    "l", "e", "%">>
MsgAllFields ==
  <<"%", "a", "l", "b", "u", "m", "%", "|", "%", "a", "l", "b", "u", "m",
    "a", "r", "t", "i", "s", "t", "%", "|", "%", "t", "r", "a", "c", "k",
    "%", "|", "%", "d", "i", "s", "c", "%", "|", "%", "y", "e", "a", "r",
    "%", "|", "%", "o", "r", "i", "g", "i", "n", "a", "l", "y", "e", "a",
    "r", "%", "|", "%", "g", "e", "n", "r", "e", "%", "|", "%", "c", "o",
    "m", "p", "o", "s", "e", "r", "%", "|", "%", "p", "e", "r", "f", "o",
    "r", "m", "e", "r", "%", "|", "%", "g", "r", "o", "u", "p", "i", "n",
    "g", "%", "|", "%", "l", "e", "n", "g", "t", "h", "%", "|", "%", "f",
    "i", "l", "e", "n", "a", "m", "e", "%", "|", "%", "u", "r", "l", "%",
    "|", "%", "p", "l", "a", "y", "c", "o", "u", "n", "t", "%", "|", "%",
    "s", "k", "i", "p", "c", "o", "u", "n", "t", "%", "|", "%", "r", "a",
    "t", "i", "n", "g", "%">>

ExampleMessages ==
  {MsgTitleArtist, MsgBoldArtist, MsgUnknown, MsgStraddle, MsgAllFields}

\* The pieces generated messages are made of.
Pieces ==
  {VarTitle, VarArtist, VarNewline, StrPercentX, StrPercent, StrDash, StrGt}

\* The messages ReplaceMessage is called with.
Messages ==
  ExampleMessages \cup
  UNION {{Concat(ps) : ps \in [1..n -> Pieces]} : n \in 0..MaxPieces}

\* What the accessors of a Song return, but for the title, artist and track.
BaseSong ==
  [PrettyTitle |-> StrSong, album |-> StrAlbum, artist |-> <<>>,
   effective_albumartist |-> StrAmp, track |-> 0 - 1, disc |-> 0,
   PrettyYear |-> StrYear, PrettyOriginalYear |-> <<>>, genre |-> StrGenre,
   composer |-> <<>>, performer |-> StrQuote, grouping |-> <<>>,
   PrettyLength |-> StrLength, basefilename |-> StrFile, url |-> StrUrl,
   playcount |-> 12, skipcount |-> 0, PrettyRating |-> StrStars]

\* The songs ReplaceMessage is called with.
Songs ==
  {[BaseSong EXCEPT !.PrettyTitle = ta[1], !.artist = ta[2], !.track = ta[3]] :
     ta \in {<<StrSong, <<>>, 0 - 1>>, <<StrSong, StrAmp, 7>>,
             <<VarArtist, StrAmp, 7>>, <<VarArtist, <<>>, 0 - 1>>,
             <<StrQuote, StrDash, 12>>, <<<<>>, StrGt, 12>>}}

\* The newline strings ReplaceMessage is called with.
Newlines == {StrLf, StrBr, StrDash}

(***************************************************************************)
(* The filesystem of the recursive walks.  A path is the sequence of its   *)
(* components below the directory the process runs in; a name is a number, *)
(* and QDir::entryList() lists names in increasing order.                  *)
(***************************************************************************)
\* An initial tree has at most MaxEntries entries below its root.
MaxEntries == 4

\* The names of directory entries; name 1 is a hidden (dot) name.
Names == {1, 2, 3}

Hidden(name) == name = 1

\* The directory the walks are called on, and the destination of a copy.
SrcRoot == <<2>>
DstRoot == <<3>>

\* The calls that may run.
Procs == {1, 2}

Parent(path) == SubSeq(path, 1, Len(path) - 1)

\* Whether path lies strictly below directory d.
Below(path, d) == Len(path) > Len(d) /\ SubSeq(path, 1, Len(d)) = d

RECURSIVE SortedSeq(_)
\* The elements of a set of numbers in increasing order.
SortedSeq(S) ==
  IF S = {} THEN <<>>
  ELSE LET m == CHOOSE x \in S : \A y \in S : x <= y
       IN  <<m>> \o SortedSeq(S \ {m})

\* An entryList() that lists the hidden entries whatever the filter.
EntryListWithHidden(entries, path, withHidden) ==
  SortedSeq({n \in Names : (path \o <<n>>) \in entries})

\* dir.entryList(NoDotAndDotDot | Dirs or Files [| Hidden]) on directory path:
\* the names of the entries of the given kind, hidden ones only when asked for.
EntryList(entries, path, withHidden) ==
  SortedSeq({n \in Names : /\ (path \o <<n>>) \in entries
                           /\ (withHidden \/ ~Hidden(n))})

\* The ancestors of path, path included, the working directory excluded.
Prefixes(path) == {SubSeq(path, 1, k) : k \in 1..Len(path)}

\* QDir::filePath(name) of QDir(base): an absolute name is taken as it is, a
\* relative one is appended to the path of the QDir.
FilePath(base, name, absolute) == IF absolute THEN name ELSE base \o name

\* The directory dir.rmdir(path) removes, where dir is QDir(path).
RmdirTarget(path, absolute) == FilePath(path, path, absolute)

\* source.section('/', -1, -1): the last component of source.
DirName(source) == <<source[Len(source)]>>

\* dest_path of CopyRecursive.
DestPath(source, destination) == destination \o DirName(source)

(***************************************************************************)
(* State.                                                                  *)
(***************************************************************************)
VARIABLES
  \* Utilities::ReplaceMessage
  message,        \* the parameter message
  song,           \* the parameter song
  newline,        \* the parameter newline
  html_escaped,   \* the parameter html_escaped
  copy,           \* the local copy, the returned string once pc = "done"
  pos,            \* the local pos
  captured,       \* captured[0] of the last match
  value,          \* what ReplaceVariable returned for it
  pc,             \* "idle", "scan" (in the for loop) or "done" (returned)
  \* the recursive walks
  dirs,           \* the directories that exist
  files,          \* the files that exist
  trash,          \* the files moved to the trash
  trashAvailable, \* whether the build has QFile::moveToTrash (Qt >= 5.15)
  calls,          \* per process, the running call of a recursive walk
  dirs0,          \* the directories that existed when the calls started
  files0          \* the files that existed when the calls started

replaceVars == <<message, song, newline, html_escaped, copy, pos, captured, value, pc>>
fsVars == <<dirs, files, trash, trashAvailable, calls, dirs0, files0>>
vars == <<replaceVars, fsVars>>

\* A process that runs no call.
IdleCall ==
  [op |-> "none", path |-> <<>>, destination |-> <<>>, absolute |-> TRUE,
   stack |-> <<>>, ret |-> "none", failed |-> FALSE, mkpathFailed |-> FALSE,
   refused |-> FALSE, copied |-> <<>>, returned |-> {}, second |-> FALSE]

\* No walk runs and the filesystem is empty.
FsIdle ==
  /\ dirs = {}
  /\ files = {}
  /\ trash = {}
  /\ trashAvailable = TRUE
  /\ calls = [p \in Procs |-> IdleCall]
  /\ dirs0 = {}
  /\ files0 = {}

\* ReplaceMessage is not called.
ReplaceIdle ==
  /\ message = <<>>
  /\ song = BaseSong
  /\ newline = <<>>
  /\ html_escaped = FALSE
  /\ copy = <<>>
  /\ pos = 0
  /\ captured = <<>>
  /\ value = <<>>
  /\ pc = "idle"

(***************************************************************************)
(* Utilities::ReplaceMessage.                                              *)
(***************************************************************************)
\* Entry of ReplaceMessage: copy(message), pos = 0.
InitReplace ==
  /\ message \in Messages
  /\ song \in Songs
  /\ newline \in Newlines
  /\ html_escaped \in BOOLEAN
  /\ copy = message
  /\ pos = 0
  /\ captured = <<>>
  /\ value = <<>>
  /\ pc = "scan"
  /\ FsIdle

\* The string the loop body leaves in copy:
\* copy.replace(captured[0], ReplaceVariable(captured[0], ...)).
Substitute(str, variable, replacement) == ReplaceAll(str, variable, replacement)

\* One iteration of the for loop: the expression matches message at or after
\* pos.
ReplaceNext ==
  /\ pc = "scan"
  /\ MatchStart(message, pos) >= 0
  /\ LET start == MatchStart(message, pos)
         length == TokenLenAt(message, start)
         variable == Mid(message, start, length)
         replacement == ReplaceVariable(variable, song, newline, html_escaped)
     IN  /\ captured' = variable
         /\ value' = replacement
         /\ copy' = Substitute(copy, variable, replacement)
         /\ pos' = start + length
  /\ UNCHANGED <<message, song, newline, html_escaped, pc, fsVars>>

\* What ReplaceMessage returns for the copy the loop left: the three
\* characters at the first match of " - (>|$)" are removed, if there is one.
StripSeparator(str) ==
  LET index_of == IndexOfStrip(str)
  IN  IF index_of >= 0 THEN Remove(str, index_of, 3) ELSE str

\* The loop ends (no further match); the separator is stripped and copy is
\* returned.
ReplaceFinish ==
  /\ pc = "scan"
  /\ MatchStart(message, pos) < 0
  /\ copy' = StripSeparator(copy)
  /\ pc' = "done"
  /\ UNCHANGED <<message, song, newline, html_escaped, pos, captured, value, fsVars>>

NextReplace == ReplaceNext \/ ReplaceFinish

SpecReplace == InitReplace /\ [][NextReplace]_vars

(***************************************************************************)
(* Properties of ReplaceMessage.                                           *)
(***************************************************************************)
RECURSIVE Rendered(_, _)
\* The message from offset from on, with every match of the left-to-right
\* scan replaced in place by its value and every other character kept.
Rendered(m, from) ==
  LET start == MatchStart(m, from)
      length == TokenLenAt(m, start)
  IN  IF start < 0 THEN SubSeq(m, from + 1, Len(m))
      ELSE SubSeq(m, from + 1, start)
             \o ReplaceVariable(Mid(m, start, length), song, newline, html_escaped)
             \o Rendered(m, start + length)

RECURSIVE ScanTokens(_, _)
\* The matches of the left-to-right scan of m from offset from on.
ScanTokens(m, from) ==
  LET start == MatchStart(m, from)
      length == TokenLenAt(m, start)
  IN  IF start < 0 THEN {}
      ELSE {Mid(m, start, length)} \cup ScanTokens(m, start + length)

RECURSIVE Literal(_, _)
\* The characters of m from offset from on that belong to no match of the scan.
Literal(m, from) ==
  LET start == MatchStart(m, from)
      length == TokenLenAt(m, start)
  IN  IF start < 0 THEN SubSeq(m, from + 1, Len(m))
      ELSE SubSeq(m, from + 1, start) \o Literal(m, start + length)

\* C1: a token-shaped substring of a substituted value is not substituted
\* again.  For a message whose every '%' belongs to a match of the scan, the
\* returned string is the message with each match replaced in place by its
\* value (and the separator stripped), whatever the values contain.
C1_ValuesNotRescanned ==
  (pc = "done" /\ ~Contains(Literal(message, 0), StrPercent))
    => copy = StripSeparator(Rendered(message, 0))

\* C2: only the matches of the scan are variables.  When no value put in
\* contains a '%', every character of the message outside the matches,
\* token-like text that overlaps a match included, is in the returned string
\* as it was: the result is the message with each match replaced in place.
C2_OnlyMatchesConsumed ==
  (/\ pc = "done"
   /\ \A v \in ScanTokens(message, 0) :
        v \in KnownVariables
          => ~Contains(ReplaceVariable(v, song, newline, html_escaped), StrPercent))
    => copy = StripSeparator(Rendered(message, 0))

\* C3: %newline% is replaced by the newline string as given, escaped or not:
\* the value of a captured %newline% is newline, and the message "%newline%"
\* returns newline whenever newline has no match of " - (>|$)".
C3_NewlineNeverEscaped ==
  /\ (pc # "idle" /\ captured = VarNewline) => value = newline
  /\ (pc = "done" /\ message = VarNewline /\ IndexOfStrip(newline) < 0)
       => copy = newline

C3_Witness ==
  /\ pc = "done"
  /\ message = VarNewline
  /\ html_escaped
  /\ newline = StrBr
  /\ copy = StrBr

\* toHtmlEscaped() told by its effect: the four characters are replaced by
\* their entities, the ampersand first.
EntitiesFor(str) ==
  ReplaceAll(
    ReplaceAll(
      ReplaceAll(
        ReplaceAll(str, <<"&">>, <<"&", "a", "m", "p", ";">>),
        <<"<">>, <<"&", "l", "t", ";">>),
      <<">">>, <<"&", "g", "t", ";">>),
    <<"\"">>, <<"&", "q", "u", "o", "t", ";">>)

\* The value C4 expects for a variable other than %newline%.
ExpectedValue(variable) ==
  IF html_escaped THEN EntitiesFor(Resolved(variable, song))
  ELSE Resolved(variable, song)

\* C4: the value of every captured variable but %newline% is the resolved
\* field, with the entities for & < > " when html_escaped and raw otherwise;
\* the text around the variable is not escaped: a message with one variable
\* and no other '%' returns prefix + value + suffix (separator stripped).
C4_ValuesEscapedTemplateNot ==
  /\ (pc # "idle" /\ captured # <<>> /\ captured # VarNewline)
       => value = ExpectedValue(captured)
  /\ LET start == MatchStart(message, 0)
         length == TokenLenAt(message, start)
         variable == Mid(message, start, length)
     IN  (/\ pc = "done"
          /\ start >= 0
          /\ variable # VarNewline
          /\ ~Contains(Literal(message, 0), StrPercent)
          /\ MatchStart(message, start + length) < 0)
           => copy = StripSeparator(SubSeq(message, 1, start)
                                      \o ExpectedValue(variable)
                                      \o SubSeq(message, start + length + 1,
                                                Len(message)))

C4_Witness ==
  /\ pc = "done"
  /\ message = MsgBoldArtist
  /\ song.artist = StrAmp
  /\ html_escaped
  /\ copy = <<"<", "b", ">", "A", "&", "a", "m", "p", ";", "B", "<", "/", "b", ">">>

\* C5: a match of the scan whose name the dispatch chain does not know is in
\* the returned string unchanged.
C5_UnknownTokensInert ==
  pc = "done"
    => \A v \in ScanTokens(message, 0) : v \notin KnownVariables => Contains(copy, v)

\* The offset C6 strips at: the first " - " that is followed by '>' or ends
\* the string; -1 if there is none.
FirstDangling(str) ==
  LET at == {i \in 0..Len(str) :
               /\ OccursAt(str, StrDash, i)
               /\ (i + 3 = Len(str) \/ OccursAt(str, StrGt, i + 3))}
  IN  IF at = {} THEN 0 - 1 ELSE CHOOSE i \in at : \A m \in at : i <= m

\* C6 as stated: the returned string is the substituted string without the
\* three characters of the first " - " that is followed by '>' or by the end
\* of the string, and is the substituted string itself if there is none.
C6_StripsAtEndOrGt ==
  [][(pc = "scan" /\ pc' = "done")
       => copy' = IF FirstDangling(copy) >= 0
                  THEN Remove(copy, FirstDangling(copy), 3) ELSE copy]_vars

(***************************************************************************)
(* The recursive walks: RemoveRecursive, MoveToTrashRecursive and          *)
(* CopyRecursive.  A call is the stack of its activations; an activation   *)
(* holds its parameters, where it is in the body, and what is left of the  *)
(* entryList() its loop runs over.  Every filesystem primitive may fail.   *)
(***************************************************************************)
\* An activation that starts at the loop over the files.
NewFrameAtFiles(op, path, destination) ==
  [path |-> path, destination |-> destination, phase |-> "dirs", todo |-> <<>>]

\* The activation of a call on path (source, for a copy): a copy starts with
\* mkpath, the others with the loop over the child directories.
NewFrame(op, path, destination) ==
  [path |-> path, destination |-> destination,
   phase |-> IF op = "copy" THEN "mkpath" ELSE "list", todo |-> <<>>]

\* A call as it starts.  The call keeps the directories its activations have
\* returned true for, and whether it is the second call on its path.
NewCall(op, path, destination, absolute) ==
  [op |-> op, path |-> path, destination |-> destination, absolute |-> absolute,
   stack |-> <<NewFrame(op, path, destination)>>, ret |-> "running",
   failed |-> FALSE, mkpathFailed |-> FALSE, refused |-> FALSE, copied |-> <<>>,
   returned |-> {}, second |-> FALSE]

\* The running activation of call c.
Top(c) == c.stack[Len(c.stack)]

\* Call c with its running activation replaced by frame.
SetTop(c, frame) == [c EXCEPT !.stack[Len(c.stack)] = frame]

\* Call c with the first name of the loop of its running activation done.
NextChild(c) == SetTop(c, [Top(c) EXCEPT !.todo = Tail(@)])

\* The running activation returns true: the call is over if it was the
\* outermost one, else the loop of its caller goes on with the next child.
ReturnTrue(c) ==
  LET rest == SubSeq(c.stack, 1, Len(c.stack) - 1)
      done == [c EXCEPT !.returned = @ \cup {Top(c).path}]
  IN  IF rest = <<>> THEN [done EXCEPT !.stack = <<>>, !.ret = "true"]
      ELSE NextChild([done EXCEPT !.stack = rest])

\* The running activation returns false: every caller is in
\* "if (!...Recursive(child)) return false;", so the whole call returns false.
ReturnFalse(c) == [c EXCEPT !.stack = <<>>, !.ret = "false"]

\* A failed file of the files loop that is skipped: the loop goes on.
ContinueAfterFileFailure(c) == NextChild([c EXCEPT !.failed = TRUE])

\* "if (!QFile::remove/moveToTrash/copy(...)) return false;" when the
\* primitive failed.
AfterFileFailure(c) == ReturnFalse([c EXCEPT !.failed = TRUE])

\* "return dir.rmdir(path);"
AfterRmdir(c, ok) ==
  IF ok THEN ReturnTrue(c) ELSE ReturnFalse([c EXCEPT !.failed = TRUE])

\* Whether call p is in the given phase of an activation.
InPhase(p, phase) ==
  /\ calls[p].ret = "running"
  /\ calls[p].stack # <<>>
  /\ Top(calls[p]).phase = phase
  /\ (calls[p].op = "trash" => trashAvailable)

\* Call c, noting that the filesystem refused (by a fault, such as missing
\* permission) an operation it could have done.
Refused(c, ok, possible) == [c EXCEPT !.refused = @ \/ (possible /\ ~ok)]

\* A filesystem: its directories, its files and the trash.
Fs(ds, fl, tr) == [d |-> ds, f |-> fl, t |-> tr]

\* mkpath can make dest_path in filesystem fs unless a file is in the way.
CanMkpathIn(fs, dest_path) == Prefixes(dest_path) \cap fs.f = {}

CanMkpath(dest_path) == CanMkpathIn(Fs(dirs, files, trash), dest_path)

\* Only an existing file can be removed or moved to the trash.
CanRemoveIn(fs, file) == file \in fs.f

CanRemove(file) == CanRemoveIn(Fs(dirs, files, trash), file)

\* QFile::copy needs the source, must not find the destination and needs
\* the directory of the destination.
CanCopyIn(fs, from, to) ==
  /\ from \in fs.f
  /\ to \notin fs.f \cup fs.d
  /\ Parent(to) \in fs.d

CanCopy(from, to) == CanCopyIn(Fs(dirs, files, trash), from, to)

\* An rmdir that takes a missing directory for removed.
CanRmdirMissing(target) == \A e \in dirs \cup files : ~Below(e, target)

\* An rmdir that also fails while any file at all is left in the filesystem.
CanRmdirInQuiet(fs, target) ==
  /\ target \in fs.d
  /\ \A e \in fs.d : ~Below(e, target)
  /\ fs.f = {}

\* Only an existing, empty directory can be removed.
CanRmdirIn(fs, target) ==
  /\ target \in fs.d
  /\ \A e \in fs.d \cup fs.f : ~Below(e, target)

CanRmdir(target) == CanRmdirIn(Fs(dirs, files, trash), target)

\* The files after QFile::copy(from, to) that left nothing behind if it failed.
FilesAfterCopyRollingBack(fl, copied, to, ok) ==
  IF ok THEN fl \cup {to} ELSE fl \ {copied[i] : i \in DOMAIN copied}

\* The files after QFile::copy(from, to): the files copied before stay when
\* it fails (copied is what the call has copied so far).
FilesAfterCopy(fl, copied, to, ok) == IF ok THEN fl \cup {to} ELSE fl

\* The trash after a QFile::moveToTrash(file) that deleted the file for good.
TrashAfterDelete(tr, file, ok) == tr

\* The trash after QFile::moveToTrash(file).
TrashAfterMove(tr, file, ok) == IF ok THEN tr \cup {file} ELSE tr

\* MoveToTrashRecursive of a build without QFile::moveToTrash: return false.
TrashUnavailable(p) ==
  /\ calls[p].ret = "running"
  /\ calls[p].op = "trash"
  /\ ~trashAvailable
  /\ calls' = [calls EXCEPT ![p] = ReturnFalse(@)]
  /\ UNCHANGED <<dirs, files, trash, trashAvailable, dirs0, files0, replaceVars>>

\* QDir().mkpath(dest_path): dest_path and its missing ancestors are made;
\* the result is not looked at.
Mkpath(p) ==
  /\ InPhase(p, "mkpath")
  /\ LET c == calls[p]
         dest_path == DestPath(Top(c).path, Top(c).destination)
     IN  \E ok \in BOOLEAN :
           /\ ok => CanMkpath(dest_path)
           /\ dest_path \in dirs => ok
           /\ dirs' = IF ok THEN dirs \cup Prefixes(dest_path) ELSE dirs
           /\ calls' = [calls EXCEPT ![p] =
                          SetTop([Refused(c, ok, CanMkpath(dest_path))
                                    EXCEPT !.mkpathFailed = @ \/ ~ok],
                                 [Top(c) EXCEPT !.phase = "list"])]
  /\ UNCHANGED <<files, trash, trashAvailable, dirs0, files0, replaceVars>>

\* dir.entryList(NoDotAndDotDot | Dirs [| Hidden]): the copy leaves Hidden out.
ListDirs(p) ==
  /\ InPhase(p, "list")
  /\ LET c == calls[p]
     IN  calls' = [calls EXCEPT ![p] =
                     SetTop(c, [Top(c) EXCEPT
                                  !.phase = "dirs",
                                  !.todo = EntryList(dirs, Top(c).path, c.op # "copy")])]
  /\ UNCHANGED <<dirs, files, trash, trashAvailable, dirs0, files0, replaceVars>>

\* The recursive call on the next child directory.
Descend(p) ==
  /\ InPhase(p, "dirs")
  /\ Top(calls[p]).todo # <<>>
  /\ LET c == calls[p]
         child == Top(c).path \o <<Head(Top(c).todo)>>
         destination == IF c.op = "copy"
                        THEN DestPath(Top(c).path, Top(c).destination)
                        ELSE Top(c).destination
     IN  calls' = [calls EXCEPT ![p] =
                     [c EXCEPT !.stack = Append(@, NewFrame(c.op, child, destination))]]
  /\ UNCHANGED <<dirs, files, trash, trashAvailable, dirs0, files0, replaceVars>>

\* dir.entryList(NoDotAndDotDot | Files [| Hidden]), once the loop over the
\* child directories is over.
ListFiles(p) ==
  /\ InPhase(p, "dirs")
  /\ Top(calls[p]).todo = <<>>
  /\ LET c == calls[p]
     IN  calls' = [calls EXCEPT ![p] =
                     SetTop(c, [Top(c) EXCEPT
                                  !.phase = "files",
                                  !.todo = EntryList(files, Top(c).path, c.op # "copy")])]
  /\ UNCHANGED <<dirs, files, trash, trashAvailable, dirs0, files0, replaceVars>>

\* QFile::remove(path + "/" + child) of RemoveRecursive.
RemoveFile(p) ==
  /\ InPhase(p, "files")
  /\ calls[p].op = "remove"
  /\ Top(calls[p]).todo # <<>>
  /\ LET c == calls[p]
         file == Top(c).path \o <<Head(Top(c).todo)>>
     IN  \E ok \in BOOLEAN :
           /\ ok => CanRemove(file)
           /\ files' = IF ok THEN files \ {file} ELSE files
           /\ calls' = [calls EXCEPT ![p] =
                          IF ok THEN NextChild(c)
                          ELSE AfterFileFailure(Refused(c, ok, CanRemove(file)))]
  /\ UNCHANGED <<dirs, trash, trashAvailable, dirs0, files0, replaceVars>>

\* QFile::moveToTrash(path + "/" + child) of MoveToTrashRecursive.
TrashFile(p) ==
  /\ InPhase(p, "files")
  /\ calls[p].op = "trash"
  /\ Top(calls[p]).todo # <<>>
  /\ LET c == calls[p]
         file == Top(c).path \o <<Head(Top(c).todo)>>
     IN  \E ok \in BOOLEAN :
           /\ ok => CanRemove(file)
           /\ files' = IF ok THEN files \ {file} ELSE files
           /\ trash' = TrashAfterMove(trash, file, ok)
           /\ calls' = [calls EXCEPT ![p] =
                          IF ok THEN NextChild(c)
                          ELSE AfterFileFailure(Refused(c, ok, CanRemove(file)))]
  /\ UNCHANGED <<dirs, trashAvailable, dirs0, files0, replaceVars>>

\* QFile::copy(source + "/" + child, dest_path + "/" + child).
CopyFile(p) ==
  /\ InPhase(p, "files")
  /\ calls[p].op = "copy"
  /\ Top(calls[p]).todo # <<>>
  /\ LET c == calls[p]
         child == <<Head(Top(c).todo)>>
         from == Top(c).path \o child
         to == DestPath(Top(c).path, Top(c).destination) \o child
     IN  \E ok \in BOOLEAN :
           /\ ok => CanCopy(from, to)
           /\ files' = FilesAfterCopy(files, c.copied, to, ok)
           /\ calls' = [calls EXCEPT ![p] =
                          IF ok THEN NextChild([c EXCEPT !.copied = Append(@, to)])
                          ELSE AfterFileFailure(Refused(c, ok, CanCopy(from, to)))]
  /\ UNCHANGED <<dirs, trash, trashAvailable, dirs0, files0, replaceVars>>

\* "return dir.rmdir(path);" of RemoveRecursive and MoveToTrashRecursive.
Rmdir(p) ==
  /\ InPhase(p, "files")
  /\ calls[p].op \in {"remove", "trash"}
  /\ Top(calls[p]).todo = <<>>
  /\ LET c == calls[p]
         target == RmdirTarget(Top(c).path, c.absolute)
     IN  \E ok \in BOOLEAN :
           /\ ok => CanRmdir(target)
           /\ dirs' = IF ok THEN dirs \ {target} ELSE dirs
           /\ calls' = [calls EXCEPT ![p] =
                          AfterRmdir(Refused(c, ok, CanRmdir(target)), ok)]
  /\ UNCHANGED <<files, trash, trashAvailable, dirs0, files0, replaceVars>>

\* "return true;" at the end of CopyRecursive.
CopyDone(p) ==
  /\ InPhase(p, "files")
  /\ calls[p].op = "copy"
  /\ Top(calls[p]).todo = <<>>
  /\ calls' = [calls EXCEPT ![p] = ReturnTrue(@)]
  /\ UNCHANGED <<dirs, files, trash, trashAvailable, dirs0, files0, replaceVars>>

\* RemoveRecursive(path) called once more after it returned true.
RemoveAgain(p) ==
  /\ calls[p].op = "remove"
  /\ calls[p].ret = "true"
  /\ ~calls[p].second
  /\ calls' = [calls EXCEPT ![p] =
                 [NewCall("remove", @.path, @.destination, @.absolute)
                    EXCEPT !.second = TRUE]]
  /\ dirs0' = dirs
  /\ files0' = files
  /\ UNCHANGED <<dirs, files, trash, trashAvailable, replaceVars>>

(***************************************************************************)
(* The walks, one call at a time.                                          *)
(***************************************************************************)
\* The trees that have one more entry than tree t: a file or a directory
\* with a new name in the root or in a directory of t.
Extend(t) ==
  {[t EXCEPT !.d = @ \cup {e}] :
     e \in {q \o <<n>> : q \in t.d \cup {SrcRoot}, n \in Names} \ (t.d \cup t.f)}
  \cup
  {[t EXCEPT !.f = @ \cup {e}] :
     e \in {q \o <<n>> : q \in t.d \cup {SrcRoot}, n \in Names} \ (t.d \cup t.f)}

RECURSIVE Trees(_)
\* The trees below SrcRoot of at most n entries: d the directories, f the
\* files.
Trees(n) ==
  IF n = 0 THEN {[d |-> {}, f |-> {}]}
  ELSE Trees(n - 1) \cup UNION {Extend(t) : t \in Trees(n - 1)}

\* What exists at the destination of a copy before it starts: nothing, the
\* destination directory, or also the directory the copy makes with a file in
\* it that has the name of a file of the source.
Destinations ==
  {[d |-> {}, f |-> {}],
   [d |-> {DstRoot}, f |-> {}],
   [d |-> {DstRoot, DstRoot \o SrcRoot}, f |-> {DstRoot \o SrcRoot \o <<2>>}]}

\* The calls of the single-call specification: a removal or a trashing of
\* SrcRoot, named by an absolute or by a relative path, or a copy of SrcRoot
\* to DstRoot.
SingleCalls ==
  {NewCall(op, SrcRoot, <<>>, absolute) :
     op \in {"remove", "trash"}, absolute \in BOOLEAN}
  \cup {NewCall("copy", SrcRoot, DstRoot, TRUE)}

\* One call starts, on a tree that may not exist at all; the destination
\* is looked at by a copy only.
InitFs ==
  /\ \E t \in Trees(MaxEntries), rootExists \in BOOLEAN, dst \in Destinations,
        c \in SingleCalls :
       /\ ~rootExists => t = [d |-> {}, f |-> {}]
       /\ c.op # "copy" => dst = [d |-> {}, f |-> {}]
       /\ dirs = (IF rootExists THEN {SrcRoot} ELSE {}) \cup t.d \cup dst.d
       /\ files = t.f \cup dst.f
       /\ calls = [p \in Procs |-> IF p = 1 THEN c ELSE IdleCall]
       /\ trashAvailable \in (IF c.op = "trash" THEN BOOLEAN ELSE {TRUE})
  /\ trash = {}
  /\ dirs0 = dirs
  /\ files0 = files
  /\ ReplaceIdle

\* A step of the walk of call p.
WalkStep(p) ==
  \/ TrashUnavailable(p)
  \/ Mkpath(p)
  \/ ListDirs(p)
  \/ Descend(p)
  \/ ListFiles(p)
  \/ RemoveFile(p)
  \/ TrashFile(p)
  \/ CopyFile(p)
  \/ Rmdir(p)
  \/ CopyDone(p)

\* A step of call p, or of its caller.
Step(p) == WalkStep(p) \/ RemoveAgain(p)

NextFs == \E p \in Procs : Step(p)

SpecFs == InitFs /\ [][NextFs]_vars

(***************************************************************************)
(* The walks as the recursive functions of the source, each run from its   *)
(* call to its return with nothing else running and nothing refused: the   *)
(* result and the filesystem the call leaves.                              *)
(***************************************************************************)
\* What a call returns and the filesystem it leaves.
Returns(ret, fs) == [ret |-> ret, fs |-> fs]

RECURSIVE RemoveRecursive(_, _, _, _)
RECURSIVE RemoveChildren(_, _, _, _, _)
RECURSIVE RemoveFiles(_, _, _, _)
RECURSIVE CopyRecursive(_, _, _)
RECURSIVE CopyChildren(_, _, _, _)
RECURSIVE CopyFiles(_, _, _, _)

\* The loop over the child directories of RemoveRecursive (op "remove") and
\* of MoveToTrashRecursive (op "trash"), with todo left to go.
RemoveChildren(op, path, todo, absolute, fs) ==
  IF todo = <<>> THEN Returns(TRUE, fs)
  ELSE LET child == RemoveRecursive(op, path \o <<Head(todo)>>, absolute, fs)
       IN  IF child.ret THEN RemoveChildren(op, path, Tail(todo), absolute, child.fs)
           ELSE child

\* The loop over the files: QFile::remove, or QFile::moveToTrash.
RemoveFiles(op, path, todo, fs) ==
  IF todo = <<>> THEN Returns(TRUE, fs)
  ELSE LET file == path \o <<Head(todo)>>
       IN  IF CanRemoveIn(fs, file)
           THEN RemoveFiles(op, path, Tail(todo),
                            [fs EXCEPT !.f = @ \ {file},
                                       !.t = IF op = "trash"
                                             THEN TrashAfterMove(@, file, TRUE) ELSE @])
           ELSE Returns(FALSE, fs)

\* RemoveRecursive(path), and MoveToTrashRecursive(path) of a build that has
\* QFile::moveToTrash.
RemoveRecursive(op, path, absolute, fs) ==
  LET children == RemoveChildren(op, path, EntryList(fs.d, path, TRUE), absolute, fs)
      removed == RemoveFiles(op, path, EntryList(children.fs.f, path, TRUE), children.fs)
      target == RmdirTarget(path, absolute)
  IN  IF ~children.ret THEN children
      ELSE IF ~removed.ret THEN removed
      ELSE IF CanRmdirIn(removed.fs, target)
           THEN Returns(TRUE, [removed.fs EXCEPT !.d = @ \ {target}])
           ELSE Returns(FALSE, removed.fs)

\* MoveToTrashRecursive(path).
MoveToTrashRecursive(path, absolute, fs, available) ==
  IF available THEN RemoveRecursive("trash", path, absolute, fs)
  ELSE Returns(FALSE, fs)

\* The loop over the child directories of CopyRecursive.
CopyChildren(source, todo, dest_path, fs) ==
  IF todo = <<>> THEN Returns(TRUE, fs)
  ELSE LET child == CopyRecursive(source \o <<Head(todo)>>, dest_path, fs)
       IN  IF child.ret THEN CopyChildren(source, Tail(todo), dest_path, child.fs)
           ELSE child

\* The loop over the files of CopyRecursive.
CopyFiles(source, todo, dest_path, fs) ==
  IF todo = <<>> THEN Returns(TRUE, fs)
  ELSE LET from == source \o <<Head(todo)>>
           to == dest_path \o <<Head(todo)>>
       IN  IF CanCopyIn(fs, from, to)
           THEN CopyFiles(source, Tail(todo), dest_path, [fs EXCEPT !.f = @ \cup {to}])
           ELSE Returns(FALSE, fs)

\* CopyRecursive(source, destination).
CopyRecursive(source, destination, fs) ==
  LET dest_path == DestPath(source, destination)
      made == IF CanMkpathIn(fs, dest_path)
              THEN [fs EXCEPT !.d = @ \cup Prefixes(dest_path)] ELSE fs
      children == CopyChildren(source, EntryList(made.d, source, FALSE), dest_path, made)
  IN  IF ~children.ret THEN children
      ELSE CopyFiles(source, EntryList(children.fs.f, source, FALSE), dest_path,
                     children.fs)

\* Call c run alone in filesystem fs.
Alone(c, fs, available) ==
  IF c.op = "remove" THEN RemoveRecursive("remove", c.path, c.absolute, fs)
  ELSE IF c.op = "trash" THEN MoveToTrashRecursive(c.path, c.absolute, fs, available)
  ELSE CopyRecursive(c.path, c.destination, fs)

(***************************************************************************)
(* Two calls at a time, on subtrees that share no path.                    *)
(***************************************************************************)
\* The tree of the first call has at most MaxConcEntries entries below its
\* root.
MaxConcEntries == 2

\* The directory the second call is on, and the directory it copies to when
\* not to DstRoot.
OtherRoot == <<1, 3>>
OtherDst == <<1, 2>>

\* The trees of the second call: the root alone, or with a file and a hidden
\* directory that holds a file.
OtherTrees ==
  {[d |-> {}, f |-> {}],
   [d |-> {OtherRoot \o <<1>>}, f |-> {OtherRoot \o <<2>>, OtherRoot \o <<1, 3>>}]}

\* The second call for a first call c1: none, or a call of the same function
\* on OtherRoot.
OtherCalls(c1) ==
  {IdleCall}
  \cup (IF c1.op = "copy"
        THEN {NewCall("copy", OtherRoot, dst, TRUE) : dst \in {DstRoot, OtherDst}}
        ELSE {NewCall(c1.op, OtherRoot, <<>>, TRUE)})

\* Two calls start; the trees they are on are there.
InitConc ==
  /\ \E t \in Trees(MaxConcEntries), dst \in Destinations, c1 \in SingleCalls :
       \E c2 \in OtherCalls(c1), t2 \in OtherTrees :
         /\ c1.op # "copy" => dst = [d |-> {}, f |-> {}]
         /\ c2 = IdleCall => t2 = [d |-> {}, f |-> {}]
         /\ dirs = {SrcRoot} \cup t.d \cup dst.d \cup Prefixes(OtherRoot) \cup t2.d
         /\ files = t.f \cup dst.f \cup t2.f
         /\ calls = [p \in Procs |-> IF p = 1 THEN c1 ELSE c2]
         /\ trashAvailable \in (IF c1.op = "trash" THEN BOOLEAN ELSE {TRUE})
  /\ trash = {}
  /\ dirs0 = dirs
  /\ files0 = files
  /\ ReplaceIdle

\* The primitives of call p when the filesystem refuses nothing it could do.
MkpathUnrefused(p) == Mkpath(p) /\ ~calls'[p].refused
RemoveFileUnrefused(p) == RemoveFile(p) /\ ~calls'[p].refused
TrashFileUnrefused(p) == TrashFile(p) /\ ~calls'[p].refused
CopyFileUnrefused(p) == CopyFile(p) /\ ~calls'[p].refused
RmdirUnrefused(p) == Rmdir(p) /\ ~calls'[p].refused

\* A step of the walk of call p, nothing refused.
ConcStep(p) ==
  \/ TrashUnavailable(p)
  \/ MkpathUnrefused(p)
  \/ ListDirs(p)
  \/ Descend(p)
  \/ ListFiles(p)
  \/ RemoveFileUnrefused(p)
  \/ TrashFileUnrefused(p)
  \/ CopyFileUnrefused(p)
  \/ RmdirUnrefused(p)
  \/ CopyDone(p)

\* A step of either call, in any order.
NextConc == \E p \in Procs : ConcStep(p)

SpecConc == InitConc /\ [][NextConc]_vars

(***************************************************************************)
(* Properties of the walks.                                                *)
(***************************************************************************)
\* The entries of a set that are directory d or lie below it.
TreeAt(entries, d) == {e \in entries : e = d \/ Below(e, d)}

\* Whether every component of path after the first k is a non-hidden name.
Visible(path, k) == \A i \in (k + 1)..Len(path) : ~Hidden(path[i])

\* C7: when RemoveRecursive(path) returns true, the directory at path and
\* everything below it, hidden or not, is gone; and on an existing empty
\* directory, when the filesystem refuses nothing, it returns true and the
\* directory is gone.
C7_RemoveRemovesAll ==
  LET c == calls[1]
  IN  (c.op = "remove" /\ c.ret \in {"true", "false"})
        => /\ c.ret = "true" => TreeAt(dirs \cup files, SrcRoot) = {}
           /\ (/\ TreeAt(dirs0 \cup files0, SrcRoot) = {SrcRoot}
               /\ SrcRoot \in dirs0
               /\ ~c.refused)
                => (c.ret = "true" /\ SrcRoot \notin dirs)

\* C8: RemoveRecursive and MoveToTrashRecursive stop at the first failure.
\* The step in which a deletion, a trashing or an rmdir fails changes nothing
\* in the filesystem and makes the call return false with no activation left
\* to go on; a call that has failed changes the filesystem no more; and no
\* step brings back an entry removed before.
C8_ShortCircuit ==
  [][LET c == calls[1]
         after == calls'[1]
     IN  c.op \in {"remove", "trash"}
           => /\ (~c.failed /\ after.failed)
                   => /\ after.ret = "false"
                      /\ after.stack = <<>>
                      /\ <<dirs', files', trash'>> = <<dirs, files, trash>>
              /\ c.failed => <<dirs', files', trash'>> = <<dirs, files, trash>>
              /\ dirs' \subseteq dirs
              /\ files' \subseteq files]_vars

C8_Witness ==
  /\ calls[1].op = "remove"
  /\ calls[1].failed
  /\ calls[1].ret = "false"
  /\ files # files0
  /\ TreeAt(files, SrcRoot) # {}

\* C9: when CopyRecursive(source, destination) returns true, the directory
\* destination/<name of source> exists and so does, at the same relative
\* path below it, every directory and file of the source that is not hidden
\* and lies in no hidden directory.
C9_TrueMeansCopied ==
  LET c == calls[1]
  IN  (c.op = "copy" /\ c.ret = "true" /\ SrcRoot \in dirs0)
        => /\ (DstRoot \o SrcRoot) \in dirs
           /\ \A e \in TreeAt(dirs0, SrcRoot) :
                Visible(e, 1) => (DstRoot \o e) \in dirs
           /\ \A e \in TreeAt(files0, SrcRoot) :
                Visible(e, 1) => (DstRoot \o e) \in files

\* The files call c has made, as paths relative to the destination.
Created(c) == {SubSeq(c.copied[i], Len(DstRoot) + 1, Len(c.copied[i])) : i \in DOMAIN c.copied}

\* C10: a failed file copy makes CopyRecursive return false without rollback.
\* The files copied so far are at the destination at all times and the
\* source tree is never changed; the step in which a copy fails makes the
\* call return false with no activation left to go on, so that no file is
\* copied afterwards; and the files made are then some, not all, of the
\* files of the source.
C10_NoRollback ==
  [][LET c == calls[1]
         after == calls'[1]
     IN  c.op = "copy"
           => /\ \A i \in DOMAIN after.copied : after.copied[i] \in files'
              /\ TreeAt(dirs', SrcRoot) = TreeAt(dirs0, SrcRoot)
              /\ TreeAt(files', SrcRoot) = TreeAt(files0, SrcRoot)
              /\ after.failed
                   => /\ after.ret = "false"
                      /\ after.stack = <<>>
                      /\ after.copied = c.copied
                      /\ Created(after) \subseteq TreeAt(files0, SrcRoot)
                      /\ Created(after) # TreeAt(files0, SrcRoot)
              /\ c.failed => (files' = files /\ dirs' = dirs)]_vars

C10_Witness ==
  /\ calls[1].op = "copy"
  /\ calls[1].failed
  /\ calls[1].ret = "false"
  /\ Len(calls[1].copied) >= 1
  /\ \A i \in DOMAIN calls[1].copied : calls[1].copied[i] \in files

\* C11: MoveToTrashRecursive disposes of files through moveToTrash only.
\* Every file of the tree that is gone is in the trash, and nothing else is;
\* when the call returns true every file of the tree is in the trash and
\* the directory at path and everything below it is gone; in a build without
\* moveToTrash the call does not return true and changes nothing.
C11_TrashOnly ==
  LET c == calls[1]
  IN  c.op = "trash"
        => /\ TreeAt(files0, SrcRoot) \ files \subseteq trash
           /\ trash \subseteq TreeAt(files0, SrcRoot) \ files
           /\ c.ret = "true"
                => /\ TreeAt(files0, SrcRoot) \subseteq trash
                   /\ TreeAt(dirs \cup files, SrcRoot) = {}
           /\ ~trashAvailable
                => /\ c.ret \in {"running", "false"}
                   /\ c.ret = "running" => c = NewCall("trash", c.path, c.destination, c.absolute)
                   /\ <<dirs, files, trash>> = <<dirs0, files0, {}>>

C11_Witness ==
  /\ calls[1].op = "trash"
  /\ calls[1].ret = "true"
  /\ Cardinality(trash) >= 2
  /\ \E e \in trash : Hidden(e[Len(e)])

\* The names a sequence of names holds.
NamesOf(todo) == {todo[i] : i \in DOMAIN todo}

\* The names of the entries of a set that are children of directory path.
ChildrenIn(entries, path) == {n \in Names : (path \o <<n>>) \in entries}

\* C12: hidden entries are walked by RemoveRecursive and
\* MoveToTrashRecursive and left out by CopyRecursive, and no walk visits
\* "." or "..".  An enumeration of a removal or trashing lists every child
\* of its kind, hidden ones included, and one of a copy lists exactly the
\* children that are not hidden; every activation below the first runs on a
\* child of the directory of its caller, which for a copy has no hidden
\* component; and whatever a copy adds to the filesystem has no hidden
\* component.
C12_HiddenAsymmetric ==
  [][LET c == calls[1]
         after == calls'[1]
         listed(entries) ==
           IF c.op = "copy" THEN {n \in ChildrenIn(entries, Top(c).path) : ~Hidden(n)}
           ELSE ChildrenIn(entries, Top(c).path)
     IN  /\ (c.ret = "running" /\ Top(c).phase = "list" /\ after.ret = "running")
              => NamesOf(Top(after).todo) = listed(dirs)
         /\ (/\ c.ret = "running" /\ Top(c).phase = "dirs" /\ Top(c).todo = <<>>)
              => NamesOf(Top(after).todo) = listed(files)
         /\ \A i \in 2..Len(after.stack) :
              /\ Parent(after.stack[i].path) = after.stack[i - 1].path
              /\ c.op = "copy" => Visible(after.stack[i].path, 0)
         /\ c.op = "copy"
              => /\ \A e \in (dirs' \cup files') \ (dirs0 \cup files0) : Visible(e, 0)
                 /\ \A i \in DOMAIN after.copied : Visible(after.copied[i], 0)]_vars

C12_Witness ==
  /\ calls[1].op = "copy"
  /\ calls[1].ret = "true"
  /\ Len(calls[1].copied) >= 1
  /\ \E d \in TreeAt(dirs0, SrcRoot) : Hidden(d[Len(d)]) /\ (DstRoot \o d) \notin dirs
  /\ \E f \in TreeAt(files0, SrcRoot) : Hidden(f[Len(f)]) /\ (DstRoot \o f) \notin files

\* The part of a filesystem that belongs to call c: what is at or below its
\* path, in the filesystem and in the trash, and for a copy what is at or
\* below the directory it makes.
Own(c, fs) ==
  LET roots == {c.path} \cup (IF c.op = "copy" THEN {DestPath(c.path, c.destination)}
                              ELSE {})
      part(entries) == UNION {TreeAt(entries, r) : r \in roots}
  IN  Fs(part(fs.d), part(fs.f), part(fs.t))

\* C13: calls on subtrees that share no path do not disturb each other.  A
\* step of one call leaves the subtree of the other as it is, and a call
\* that has returned, whatever the other call did in between, has returned
\* what it returns when run alone from the same filesystem and has left its
\* subtree as it leaves it when run alone.
C13_DisjointCallsIndependent ==
  [][\A p \in Procs :
       LET c == calls[p]
           after == calls'[p]
           alone == Alone(c, Fs(dirs0, files0, {}), trashAvailable)
       IN  c.op # "none"
             => /\ after = c
                     => Own(c, Fs(dirs', files', trash')) = Own(c, Fs(dirs, files, trash))
                /\ after.ret \in {"true", "false"}
                     => /\ (after.ret = "true") = alone.ret
                        /\ Own(c, Fs(dirs', files', trash')) = Own(c, alone.fs)]_vars

C13_Witness ==
  /\ \A p \in Procs :
       /\ calls[p].op = "remove"
       /\ calls[p].ret = "running"
       /\ Len(calls[p].stack) = 1
       /\ Top(calls[p]).phase = "files"
       /\ TreeAt(files0, calls[p].path) # TreeAt(files, calls[p].path)
       /\ TreeAt(files, calls[p].path) # {}

\* The child directories the walk of op descends into in directory d.
WalkedDirs(op, d) ==
  {d \o <<n>> : n \in {m \in ChildrenIn(dirs0, d) : op = "copy" => ~Hidden(m)}}

\* Whether call c is through with directory x and, recursively, with all
\* that is below it: the activation on every child directory has returned
\* true, and the files of x are gone (removal, trashing) or are at the
\* destination (copy).
Processed(c, x) ==
  /\ \A y \in TreeAt(dirs0, x) : Visible(y, Len(x)) \/ c.op # "copy" => y \in c.returned
  /\ c.op \in {"remove", "trash"} => TreeAt(files, x) = {}
  /\ c.op = "copy"
       => \A f \in TreeAt(files0, x) : Visible(f, Len(x)) => (DstRoot \o f) \in files

\* C14: the order of the walks.  In RemoveRecursive and
\* MoveToTrashRecursive on directory d, a file of d is deleted or trashed
\* only in the files loop of d, when every child directory of d has been
\* processed with all that is below it, and rmdir is tried only when also no
\* file is left in d.  In CopyRecursive on d, mkpath of the destination
\* directory of d has run, and unless it failed the directory exists, before
\* the copy of a child directory starts or a file of d is copied; a file is
\* copied into an existing directory, only when every child directory that
\* is not hidden has been copied with all that is below it.  Whatever an
\* activation has returned true for has been processed.
C14_FixedOrder ==
  [][LET c == calls[1]
         after == calls'[1]
         d == Top(c).path
         fileStep == c.op # "copy" /\ Top(c).phase = "files" /\ Top(c).todo # <<>>
         rmdirStep == c.op # "copy" /\ Top(c).phase = "files" /\ Top(c).todo = <<>>
         descendStep == Len(after.stack) > Len(c.stack)
         copyStep == c.op = "copy" /\ Top(c).phase = "files" /\ Top(c).todo # <<>>
     IN  (c.ret = "running" /\ calls' # calls)
           => /\ (files' # files \/ trash' # trash) => (fileStep \/ copyStep)
              /\ dirs' \subseteq dirs /\ dirs' # dirs => rmdirStep
              /\ fileStep
                   => /\ files \ files' \subseteq {d \o <<Head(Top(c).todo)>>}
                      /\ \A x \in WalkedDirs(c.op, d) : Processed(c, x)
              /\ rmdirStep
                   => /\ \A x \in WalkedDirs(c.op, d) : Processed(c, x)
                      /\ ChildrenIn(files, d) = {}
                      /\ dirs \ dirs' \subseteq {RmdirTarget(d, c.absolute)}
              /\ (c.op = "copy" /\ (descendStep \/ copyStep))
                   => /\ Top(c).phase # "mkpath"
                      /\ ~c.mkpathFailed => DestPath(d, Top(c).destination) \in dirs
              /\ copyStep
                   => /\ \A x \in WalkedDirs(c.op, d) : Processed(c, x)
                      /\ \A f \in files' \ files : Parent(f) \in dirs
              /\ (descendStep /\ Top(after).phase = "mkpath" /\ c.op = "copy")
                   => ChildrenIn(files' \ files0, DestPath(d, Top(c).destination)) = {}
              /\ \A x \in after.returned : Processed(after, x)]_vars

C14_Witness ==
  LET c == calls[1]
  IN  /\ c.op = "remove"
      /\ c.ret = "running"
      /\ Len(c.stack) = 1
      /\ Top(c).phase = "files"
      /\ Top(c).todo = <<>>
      /\ ChildrenIn(files0, SrcRoot) # {}
      /\ \E x \in c.returned : ChildrenIn(dirs0, x) # {} /\ ChildrenIn(files0, x) # {}

\* C15: RemoveRecursive on a path that does not exist, as in a second call
\* after a first one that returned true, enumerates no children, changes
\* nothing in the filesystem and returns false from the final rmdir.  A first
\* call that returned true leaves no directory at path, so a second call
\* starts on a missing path; a call on a missing path has one activation
\* only, with empty enumerations, leaves directories, files and trash as they
\* were, is never refused anything it could have done, can always take its
\* next step, and ends with false, by a failure.
C15_MissingPathFalse ==
  LET c == calls[1]
  IN  c.op = "remove"
        => /\ c.ret = "true" => (~c.second /\ SrcRoot \notin dirs)
           /\ c.second => SrcRoot \notin dirs0
           /\ SrcRoot \notin dirs0
                => /\ <<dirs, files, trash>> = <<dirs0, files0, {}>>
                   /\ Len(c.stack) <= 1
                   /\ \A i \in DOMAIN c.stack : c.stack[i].todo = <<>>
                   /\ c.returned = {}
                   /\ ~c.refused
                   /\ c.ret \in {"running", "false"}
                   /\ c.ret = "running" => ENABLED Step(1)
                   /\ c.ret = "false" => c.failed

C15_Witness ==
  /\ calls[1].op = "remove"
  /\ calls[1].second
  /\ calls[1].ret = "false"
  /\ calls[1].failed
  /\ SrcRoot \notin dirs

====
